---- MODULE Spec2Model ----
(***************************************************************************)
(* The download manager of drop-app: the scheduler loop of                 *)
(* DownloadManagerBuilder (download_manager_builder.rs), the worker        *)
(* threads its Go handler spawns, and the command channel between them.    *)
(*                                                                         *)
(* A job is identified by its game id.  Ids are admitted at most once      *)
(* (the Queue signal for an id is sent at most once), so an id also        *)
(* identifies the agent, its control flag and its queue handle.            *)
(***************************************************************************)
EXTENDS Naturals, Sequences, FiniteSets

\* ------------------------------------------------------------------ bounds
NumIds == 3
MaxWaiting == 0
MaxSpawns == 2
\* chunk pipeline: declared content lengths are 0..MaxLen, sources hold up to
\* MaxLen + 1 bytes, and one read returns at most CopyBufSize bytes
MaxLen == 3
CopyBufSize == 2

Ids == 1..NumIds
None == 0

VARIABLES
    registry,     \* download_agent_registry: the ids that have an agent
    queue,        \* download_queue: sequence of handle ids
    current,      \* current_game_interface: id of the handle, or None
    activeFlag,   \* active_control_flag: id of the agent whose flag it is, or None
    progress,     \* progress slot: id of the agent whose progress is bound, or None
    flag,         \* control flag of each agent
    handleStatus, \* AgentInterfaceData.status of each handle
    gameStatus,   \* DB.games.games_statuses, written by set_game_status
    mgrStatus,    \* DownloadManagerStatus
    chan,         \* the mpsc command channel, oldest first
    loop,         \* "run", "finished" (Finish handled) or "panicked"
    wStart,       \* per id: spawned workers that have not read the flag yet
    wCopy,        \* per id: workers inside the transfer
    wDone,        \* per id: workers that sent Completed and have not returned
    spawned,      \* per id: number of threads spawned by the Go handler
    admitted,     \* ids for which Queue was sent
    driven,       \* the caller of the drain scenario has sent its one Go
    received,     \* history: ids in the order their Queue signals were handled
    pc,           \* chunk pipeline: position in download_game_chunk / copy
    size,         \* chunk pipeline: self.size, the declared content length
    avail,        \* chunk pipeline: bytes the source has not yet delivered
    current_size, \* chunk pipeline: current_size of copy
    written,      \* chunk pipeline: bytes handed to buf_writer.write_all
    prog,         \* chunk pipeline: value of the ProgressHandle
    result        \* chunk pipeline: "none", "Ok(true)", "Ok(false)", "Err",
                  \* or "Panic" when the thread panicked and nothing is returned

sched == <<registry, queue, current, activeFlag, progress, handleStatus,
           gameStatus, mgrStatus, received>>
workers == <<wStart, wCopy, wDone>>
callers == <<admitted, driven>>
pipe == <<pc, size, avail, current_size, written, prog, result>>
vars == <<registry, queue, current, activeFlag, progress, flag, handleStatus,
          gameStatus, mgrStatus, chan, loop, wStart, wCopy, wDone, spawned,
          admitted, driven, received, pc, size, avail, current_size, written,
          prog, result>>

\* ----------------------------------------------------------------- signals
Sig(t, id) == [t |-> t, id |-> id]
GoSig == Sig("Go", None)
StopSig == Sig("Stop", None)
FinishSig == Sig("Finish", None)
ErrorSig == Sig("Error", None)
QueueSig(i) == Sig("Queue", i)
CompletedSig(i) == Sig("Completed", i)
CancelSig(i) == Sig("Cancel", i)

\* ------------------------------------------------------------------- queue
QueueIds == {queue[k] : k \in 1..Len(queue)}

\* iter().position(|interface| interface.id == game_id), 0 for None
Position(q, id) ==
    IF \E k \in 1..Len(q) : q[k] = id
    THEN CHOOSE k \in 1..Len(q) : q[k] = id /\ \A j \in 1..(k - 1) : q[j] # id
    ELSE 0

\* VecDeque::remove(index)
RemoveAt(q, k) == SubSeq(q, 1, k - 1) \o SubSeq(q, k + 1, Len(q))

\* (mutant) Queue::append puts the handle at the front
AppendsAtFront(q, id) == <<id>> \o q

\* Queue::append: the handle goes to the back
QueueAppend(q, id) == Append(q, id)

\* Queue::pop_front: nothing happens on an empty queue
PopFront(q) == IF q = << >> THEN q ELSE Tail(q)

\* The control flag a new agent starts with.
InitialFlag == "Stop"

RECURSIVE SumTo(_, _)
SumTo(f, n) == IF n = 0 THEN 0 ELSE f[n] + SumTo(f, n - 1)

\* number of threads the Go handler has spawned so far
TotalSpawned == SumTo(spawned, NumIds)
\* worker threads that have not returned from download_agent.download()
LiveWorkers ==
    SumTo(wStart, NumIds) + SumTo(wCopy, NumIds) + SumTo(wDone, NumIds)

\* DownloadManagerBuilder::build: the manager before its first signal
InitManager ==
    /\ registry = {}
    /\ queue = << >>
    /\ current = None
    /\ activeFlag = None
    /\ progress = None
    /\ received = << >>
    /\ handleStatus = [i \in Ids |-> "Uninitialised"]
    /\ gameStatus = [i \in Ids |-> "None"]
    /\ mgrStatus = "Empty"
    /\ chan = << >>
    /\ loop = "run"
    /\ wStart = [i \in Ids |-> 0]
    /\ wCopy = [i \in Ids |-> 0]
    /\ wDone = [i \in Ids |-> 0]
    /\ spawned = [i \in Ids |-> 0]
    /\ admitted = {}
    /\ driven = FALSE

\* no chunk pipeline is running
PipelineIdle ==
    /\ pc = "idle"
    /\ size = 0
    /\ avail = 0
    /\ current_size = 0
    /\ written = 0
    /\ prog = 0
    /\ result = "none"

Init ==
    /\ InitManager
    /\ flag = [i \in Ids |-> InitialFlag]
    /\ PipelineIdle

\* ------------------------------------------------------------ the handlers
\* Each handler is the whole of its function, run on the signal at the head
\* of the channel (manage_queue has just received it).

\* set_game_status(id, status)
SetGameStatus(id, status) == [gameStatus EXCEPT ![id] = status]

\* DownloadThreadControl::set on the flag of agent a
SetFlag(f, a, v) == [f EXCEPT ![a] = v]

\* (mutant) manage_stop_signal also unbinds the active job
StopUnbindsActive ==
    /\ Head(chan) = StopSig
    /\ flag' = IF activeFlag # None THEN SetFlag(flag, activeFlag, "Stop") ELSE flag
    /\ activeFlag' = None
    /\ progress' = None
    /\ chan' = Tail(chan)
    /\ UNCHANGED <<registry, queue, current, handleStatus, gameStatus,
                   mgrStatus, received, loop, workers, spawned, callers, pipe>>

\* manage_stop_signal
ManageStopSignal ==
    /\ Head(chan) = StopSig
    /\ flag' = IF activeFlag # None THEN SetFlag(flag, activeFlag, "Stop") ELSE flag
    /\ chan' = Tail(chan)
    /\ UNCHANGED <<sched, loop, workers, spawned, callers, pipe>>

\* the Finish arm of manage_queue
ManageFinishSignal ==
    /\ Head(chan) = FinishSig
    /\ flag' = IF activeFlag # None THEN SetFlag(flag, activeFlag, "Stop") ELSE flag
    /\ loop' = "finished"
    /\ chan' = Tail(chan)
    /\ UNCHANGED <<sched, workers, spawned, callers, pipe>>

\* the guard of manage_completed_signal: the signal names the current interface
CompletedMatches(g) == current # None /\ current = g

\* (mutant) manage_completed_signal sends nothing
CompletedSendsNothing(g) == << >>

\* what manage_completed_signal sends to the loop afterwards
CompletedSends(g) == <<GoSig>>

\* (mutant) manage_completed_signal leaves the progress slot bound
CompletedKeepsProgress(g) ==
    /\ Head(chan) = CompletedSig(g)
    /\ IF CompletedMatches(g)
       THEN /\ queue' = PopFront(queue)
            /\ registry' = registry \ {g}
            /\ activeFlag' = None
            /\ gameStatus' = SetGameStatus(g, "Installed")
       ELSE UNCHANGED <<queue, registry, activeFlag, gameStatus>>
    /\ chan' = Tail(chan) \o CompletedSends(g)
    /\ UNCHANGED <<current, progress, flag, handleStatus, mgrStatus, received,
                   loop, workers, spawned, callers, pipe>>

\* manage_completed_signal
ManageCompletedSignal(g) ==
    /\ Head(chan) = CompletedSig(g)
    /\ IF CompletedMatches(g)
       THEN /\ queue' = PopFront(queue)
            /\ registry' = registry \ {g}
            /\ activeFlag' = None
            /\ progress' = None
            /\ gameStatus' = SetGameStatus(g, "Installed")
       ELSE UNCHANGED <<queue, registry, activeFlag, progress, gameStatus>>
    /\ chan' = Tail(chan) \o CompletedSends(g)
    /\ UNCHANGED <<current, flag, handleStatus, mgrStatus, received, loop,
                   workers, spawned, callers, pipe>>

\* (mutant) manage_queue_signal sends Go after queuing
QueueThenGo(id) ==
    /\ Head(chan) = QueueSig(id)
    /\ registry' = registry \cup {id}
    /\ queue' = QueueAppend(queue, id)
    /\ flag' = SetFlag(flag, id, InitialFlag)
    /\ handleStatus' = [handleStatus EXCEPT ![id] = "Uninitialised"]
    /\ gameStatus' = SetGameStatus(id, "Queued")
    /\ received' = Append(received, id)
    /\ chan' = Tail(chan) \o <<GoSig>>
    /\ UNCHANGED <<current, activeFlag, progress, mgrStatus, loop, workers,
                   spawned, callers, pipe>>

\* manage_queue_signal: a new agent and a new handle for id
ManageQueueSignal(id) ==
    /\ Head(chan) = QueueSig(id)
    /\ registry' = registry \cup {id}
    /\ queue' = QueueAppend(queue, id)
    /\ flag' = SetFlag(flag, id, InitialFlag)
    /\ handleStatus' = [handleStatus EXCEPT ![id] = "Uninitialised"]
    /\ gameStatus' = SetGameStatus(id, "Queued")
    /\ received' = Append(received, id)
    /\ chan' = Tail(chan)
    /\ UNCHANGED <<current, activeFlag, progress, mgrStatus, loop, workers,
                   spawned, callers, pipe>>

\* the early return of manage_go_signal
GoReturnsEarly == ~(registry # {} /\ queue # << >>)

\* manage_go_signal.  The thread is spawned before the flag is set to Go, so
\* the worker's first read of the flag may come before the set (early) and
\* then sees the value the flag had; a worker that reads Stop there returns
\* at once.
ManageGoSignal ==
    /\ Head(chan) = GoSig
    /\ chan' = Tail(chan)
    /\ IF GoReturnsEarly
       THEN UNCHANGED <<sched, flag, loop, workers, spawned>>
       ELSE LET front == Head(queue) IN
            IF front \notin registry
            THEN /\ loop' = "panicked"
                 /\ UNCHANGED <<sched, flag, workers, spawned>>
            ELSE /\ TotalSpawned < MaxSpawns
                 /\ current' = front
                 /\ progress' = front
                 /\ activeFlag' = front
                 /\ spawned' = [spawned EXCEPT ![front] = @ + 1]
                 /\ \E early \in BOOLEAN :
                        wStart' = IF early /\ flag[front] = "Stop"
                                  THEN wStart
                                  ELSE [wStart EXCEPT ![front] = @ + 1]
                 /\ flag' = SetFlag(flag, front, "Go")
                 /\ mgrStatus' = "Downloading"
                 /\ gameStatus' = SetGameStatus(front, "Downloading")
                 /\ UNCHANGED <<registry, queue, handleStatus, received, loop,
                                wCopy, wDone>>
    /\ UNCHANGED <<callers, pipe>>

\* manage_error_signal
ManageErrorSignal ==
    /\ Head(chan) = ErrorSig
    /\ chan' = Tail(chan)
    /\ IF current = None
       THEN /\ loop' = "panicked"
            /\ UNCHANGED <<handleStatus, mgrStatus>>
       ELSE /\ handleStatus' = [handleStatus EXCEPT ![current] = "Error"]
            /\ mgrStatus' = "Error"
            /\ UNCHANGED loop
    /\ UNCHANGED <<registry, queue, current, activeFlag, progress, flag,
                   gameStatus, received, workers, spawned, callers, pipe>>

\* the first block of manage_cancel_signal runs when a flag is active
CancelStopsActive(g) == activeFlag # None

\* (mutant) manage_cancel_signal drops the front entry, not the entry of g
CancelQueuePopsFront(q, g) == IF Position(q, g) = 0 THEN q ELSE Tail(q)

\* the queue after manage_cancel_signal
CancelQueue(q, g) == IF Position(q, g) = 0 THEN q ELSE RemoveAt(q, Position(q, g))

\* what manage_cancel_signal sends to the loop afterwards
CancelSends(q, g) == IF Position(q, g) = 0 THEN << >> ELSE <<GoSig>>

\* manage_cancel_signal
ManageCancelSignal(g) ==
    /\ Head(chan) = CancelSig(g)
    /\ IF CancelStopsActive(g)
       THEN /\ flag' = SetFlag(flag, activeFlag, "Stop")
            /\ activeFlag' = None
            /\ progress' = None
       ELSE UNCHANGED <<flag, activeFlag, progress>>
    /\ registry' = registry \ {g}
    /\ queue' = CancelQueue(queue, g)
    /\ chan' = Tail(chan) \o CancelSends(queue, g)
    /\ UNCHANGED <<current, handleStatus, gameStatus, mgrStatus, received,
                   loop, workers, spawned, callers, pipe>>

\* manage_queue: receive one signal and dispatch it
Receiving == loop = "run" /\ chan # << >>

RecvGo == Receiving /\ ManageGoSignal
RecvStop == Receiving /\ ManageStopSignal
RecvCompleted == Receiving /\ \E g \in Ids : ManageCompletedSignal(g)
RecvQueue == Receiving /\ \E i \in Ids : ManageQueueSignal(i)
RecvFinish == Receiving /\ ManageFinishSignal
RecvError == Receiving /\ ManageErrorSignal
RecvCancel == Receiving /\ \E g \in Ids : ManageCancelSignal(g)

Recv ==
    \/ RecvGo
    \/ RecvStop
    \/ RecvCompleted
    \/ RecvQueue
    \/ RecvFinish
    \/ RecvError
    \/ RecvCancel

\* ------------------------------------------------------------- the workers
\* The closure spawned by manage_go_signal runs download_agent.download().
\* A worker first reads its agent's flag and returns at once on Stop; inside
\* the transfer it polls the flag before every read and returns on Stop.  A
\* worker that entered the transfer read Go, so it may already be past its
\* last poll: its completion or failure is enabled whatever the flag is now.

\* Sender::send from a worker thread; the message is lost once the loop is gone
WorkerSend(sig) ==
    IF loop = "run" THEN chan' = Append(chan, sig) ELSE UNCHANGED chan

\* the first read of the flag: pause-before-start on Stop, else transfer
WorkerBegin(i) ==
    /\ wStart[i] > 0
    /\ wStart' = [wStart EXCEPT ![i] = @ - 1]
    /\ wCopy' = IF flag[i] = "Stop" THEN wCopy ELSE [wCopy EXCEPT ![i] = @ + 1]
    /\ UNCHANGED <<sched, flag, chan, loop, wDone, spawned, callers, pipe>>

\* a poll of the copy loop reads Stop: copy returns Ok(false)
WorkerStops(i) ==
    /\ wCopy[i] > 0
    /\ flag[i] = "Stop"
    /\ wCopy' = [wCopy EXCEPT ![i] = @ - 1]
    /\ UNCHANGED <<sched, flag, chan, loop, wStart, wDone, spawned, callers,
                   pipe>>

\* the transfer ends: the agent fires Completed(id) from inside download();
\* the thread has yet to return
WorkerCompletes(i) ==
    /\ wCopy[i] > 0
    /\ wCopy' = [wCopy EXCEPT ![i] = @ - 1]
    /\ wDone' = [wDone EXCEPT ![i] = @ + 1]
    /\ WorkerSend(CompletedSig(i))
    /\ UNCHANGED <<sched, flag, loop, wStart, spawned, callers, pipe>>

\* download() returns Ok after the agent fired Completed: the closure ends
WorkerReturns(i) ==
    /\ wDone[i] > 0
    /\ wDone' = [wDone EXCEPT ![i] = @ - 1]
    /\ UNCHANGED <<sched, flag, chan, loop, wStart, wCopy, spawned, callers,
                   pipe>>

\* download() returns Err: the closure sends Error(err)
WorkerFails(i) ==
    /\ wCopy[i] > 0
    /\ wCopy' = [wCopy EXCEPT ![i] = @ - 1]
    /\ WorkerSend(ErrorSig)
    /\ UNCHANGED <<sched, flag, loop, wStart, wDone, spawned, callers, pipe>>

\* an unwrap inside download() fails: the thread panics and sends nothing
WorkerPanics(i) ==
    /\ wCopy[i] > 0
    /\ wCopy' = [wCopy EXCEPT ![i] = @ - 1]
    /\ UNCHANGED <<sched, flag, chan, loop, wStart, wDone, spawned, callers,
                   pipe>>

\* one scheduled step of a worker thread of job i
WorkerStep(i) ==
    \/ WorkerBegin(i)
    \/ WorkerStops(i)
    \/ WorkerCompletes(i)
    \/ WorkerReturns(i)
    \/ WorkerFails(i)
    \/ WorkerPanics(i)

\* --------------------------------------------------------- the environment
\* Callers holding the manager interface send signals down the channel; a
\* caller sends while at most MaxWaiting signals are waiting to be received.
Send(sig) ==
    /\ loop = "run"
    /\ Len(chan) <= MaxWaiting
    /\ chan' = Append(chan, sig)
    /\ UNCHANGED <<sched, flag, loop, workers, spawned, pipe>>

\* every job is queued under an id of its own; ids are interchangeable names,
\* so the callers use them in increasing order
EnvQueue(i) ==
    /\ i \notin admitted
    /\ \A j \in 1..(i - 1) : j \in admitted
    /\ admitted' = admitted \cup {i}
    /\ UNCHANGED driven
    /\ Send(QueueSig(i))
EnvGo == Send(GoSig) /\ UNCHANGED callers
EnvStop == Send(StopSig) /\ UNCHANGED callers
EnvCancel(i) == Send(CancelSig(i)) /\ UNCHANGED callers
EnvFinish == Send(FinishSig) /\ UNCHANGED callers
\* signals only workers send in normal operation, sent by anyone
EnvCompleted(i) == Send(CompletedSig(i)) /\ UNCHANGED callers
EnvError == Send(ErrorSig) /\ UNCHANGED callers

Env ==
    \/ \E i \in Ids : EnvQueue(i)
    \/ EnvGo
    \/ EnvStop
    \/ \E i \in Ids : EnvCancel(i)
    \/ EnvFinish

EnvAny ==
    \/ \E i \in Ids : EnvCompleted(i)
    \/ EnvError

\* Normal operation: callers queue, start, stop, cancel and finish, and no
\* transfer fails or panics, so no Error is ever sent and the Error arm
\* never runs.
Next ==
    \/ RecvGo
    \/ RecvStop
    \/ RecvCompleted
    \/ RecvQueue
    \/ RecvFinish
    \/ RecvCancel
    \/ \E i \in Ids : WorkerBegin(i)
    \/ \E i \in Ids : WorkerStops(i)
    \/ \E i \in Ids : WorkerCompletes(i)
    \/ \E i \in Ids : WorkerReturns(i)
    \/ Env

Spec == Init /\ [][Next]_vars

\* Any sequence of signals: transfers may fail, and Completed and Error also
\* come from outside.
NextAny ==
    \/ Recv
    \/ \E i \in Ids : WorkerStep(i)
    \/ Env
    \/ EnvAny

SpecAny == Init /\ [][NextAny]_vars

\* Operation in which nobody cancels: callers queue, start, stop and finish,
\* and transfers complete, stop or fail.
NextNoCancel ==
    \/ RecvGo
    \/ RecvStop
    \/ RecvCompleted
    \/ RecvQueue
    \/ RecvFinish
    \/ RecvError
    \/ \E i \in Ids : WorkerStep(i)
    \/ \E i \in Ids : EnvQueue(i)
    \/ EnvGo
    \/ EnvStop
    \/ EnvFinish

SpecNoCancel == Init /\ [][NextNoCancel]_vars

\* ------------------------------------------------------ the drain scenario
\* One caller queues jobs and then sends one Go; it sends no Queue and no Go
\* after that.  The loop and every worker thread keep being scheduled.
DrainQueue(i) ==
    /\ ~driven
    /\ Cardinality(admitted) < MaxSpawns
    /\ EnvQueue(i)

DrainGo ==
    /\ ~driven
    /\ admitted # {}
    /\ driven' = TRUE
    /\ UNCHANGED admitted
    /\ Send(GoSig)

\* The caller may also send Stop or Finish, and a transfer may fail: these
\* are the disturbances the drain property assumes away.  Nobody cancels in
\* this scenario; cancellation is exercised under Spec and SpecAny.
NextDrain ==
    \/ RecvGo
    \/ RecvCompleted
    \/ RecvQueue
    \/ RecvStop
    \/ RecvError
    \/ RecvFinish
    \/ \E i \in Ids : WorkerStep(i)
    \/ \E i \in Ids : DrainQueue(i)
    \/ DrainGo
    \/ EnvStop
    \/ EnvFinish

SpecDrain ==
    /\ Init
    /\ [][NextDrain]_vars
    /\ WF_vars(Recv)
    /\ \A i \in Ids : WF_vars(WorkerStep(i))

\* ------------------------------------------------------ the chunk pipeline
\* One invocation of download_game_chunk, with DropDownloadPipeline::copy
\* inside it, run by the worker of job ChunkJob.  The declared content
\* length and the length of the source are inputs; the scheduler may set the
\* job's control flag at any time.
ChunkJob == CHOOSE i \in Ids : \A j \in Ids : i <= j

Min(a, b) == IF a <= b THEN a ELSE b

InitChunk ==
    /\ InitManager
    /\ \E v \in {"Go", "Stop"} : flag = [i \in Ids |-> v]
    /\ pc = "start"
    /\ size \in 0..MaxLen
    /\ avail \in 0..(MaxLen + 1)
    /\ current_size = 0
    /\ written = 0
    /\ prog = 0
    /\ result = "none"

manager == <<sched, chan, loop, workers, spawned, callers>>

\* download_game_chunk: the pause check at entry
ChunkStart ==
    /\ pc = "start"
    /\ IF flag[ChunkJob] = "Stop"
       THEN /\ prog' = 0
            /\ result' = "Ok(false)"
            /\ pc' = "done"
       ELSE /\ pc' = "request"
            /\ UNCHANGED <<prog, result>>
    /\ UNCHANGED <<manager, flag, size, avail, current_size, written>>

\* download_game_chunk: the request.  A failed send, a status other than 200
\* or a missing content length returns Err; an unwrap or expect that fails
\* (joining the url, reading the body of a non-200 answer, opening the
\* destination, seeking to the offset) panics; otherwise the pipeline is built
\* and copy begins.
ChunkRequest ==
    /\ pc = "request"
    /\ \E outcome \in {"built", "Err", "Panic"} :
        IF outcome = "built"
        THEN pc' = "poll" /\ UNCHANGED result
        ELSE pc' = "done" /\ result' = outcome
    /\ UNCHANGED <<manager, flag, size, avail, current_size, written, prog>>

\* (mutant) copy polls the flag only once bytes have been copied
CopyPollAfterFirstRead ==
    /\ pc = "poll"
    /\ IF flag[ChunkJob] = "Stop" /\ current_size > 0
       THEN pc' = "done" /\ result' = "Ok(false)"
       ELSE pc' = "read" /\ UNCHANGED result
    /\ UNCHANGED <<manager, flag, size, avail, current_size, written, prog>>

\* copy: the poll of the control flag at the top of the loop
CopyPoll ==
    /\ pc = "poll"
    /\ IF flag[ChunkJob] = "Stop"
       THEN pc' = "done" /\ result' = "Ok(false)"
       ELSE pc' = "read" /\ UNCHANGED result
    /\ UNCHANGED <<manager, flag, size, avail, current_size, written, prog>>

\* what source.read(&mut copy_buf) may return as Ok(n): 0 at the end of the
\* source, else 1 up to the buffer size or what is left
ReadSizes == IF avail = 0 THEN {0} ELSE 1..Min(CopyBufSize, avail)

\* copy: the rest of one iteration.  read or write_all may fail (the ?
\* returns Err); otherwise the bytes are counted, written and added to the
\* progress, and the loop ends when current_size equals size.
CopyRead ==
    /\ pc = "read"
    /\ \/ /\ pc' = "done"
          /\ result' = "Err"
          /\ UNCHANGED <<avail, current_size, written, prog>>
       \/ \E n \in ReadSizes :
             /\ avail' = avail - n
             /\ current_size' = current_size + n
             /\ \/ /\ pc' = "done"
                   /\ result' = "Err"
                   /\ UNCHANGED <<written, prog>>
                \/ /\ written' = written + n
                   /\ prog' = prog + n
                   /\ pc' = IF current_size + n = size THEN "copied" ELSE "poll"
                   /\ UNCHANGED result
    /\ UNCHANGED <<manager, flag, size>>

\* download_game_chunk after copy returned Ok(true): the permissions are set
\* (the unwrap panics when that fails) and Ok(true) is returned
ChunkFinish ==
    /\ pc = "copied"
    /\ pc' = "done"
    /\ \E outcome \in {"Ok(true)", "Panic"} : result' = outcome
    /\ UNCHANGED <<manager, flag, size, avail, current_size, written, prog>>

\* one scheduled step of the thread running the pipeline
ChunkStep ==
    \/ ChunkStart
    \/ ChunkRequest
    \/ CopyPoll
    \/ CopyRead
    \/ ChunkFinish

\* the scheduler sets the job's control flag while the pipeline runs
ControlSet(v) ==
    /\ pc \notin {"idle", "done"}
    /\ flag[ChunkJob] # v
    /\ flag' = SetFlag(flag, ChunkJob, v)
    /\ UNCHANGED <<manager, pipe>>

NextChunk ==
    \/ ChunkStart
    \/ ChunkRequest
    \/ CopyPoll
    \/ CopyRead
    \/ ChunkFinish
    \/ \E v \in {"Go", "Stop"} : ControlSet(v)

SpecChunk == InitChunk /\ [][NextChunk]_vars /\ WF_vars(ChunkStep)

\* ----------------------------------------------------------------- claims
\* A step of the loop that handles sig: the loop takes sig off the head of the
\* channel, and the handler may append one Go.  Callers and workers only
\* append, or leave the channel alone.
Handling(sig) ==
    /\ chan # << >>
    /\ Head(chan) = sig
    /\ chan' # chan
    /\ chan' \in {Tail(chan), Tail(chan) \o <<GoSig>>}

\* q without every entry for id
Without(q, id) == SelectSeq(q, LAMBDA x : x # id)

Downloading == {i \in Ids : gameStatus[i] = "Downloading"}

\* C1: between signal handlers the set of ids in the job queue equals the
\* set of ids in the agent registry.
C1_QueueMatchesRegistry == QueueIds = registry

\* C2: at most one worker thread spawned by the Go handler has not yet
\* returned from the agent's download.
C2_OneWorkerAtATime == LiveWorkers <= 1

\* C3: at most one job has the per-job status Downloading.
C3_OneDownloading == Cardinality(Downloading) <= 1

\* C4: handling Completed(id) for an id that is not the current job changes
\* neither queue, registry, active pointers, progress binding nor statuses,
\* sends nothing and spawns nothing.
C4_StaleCompletedIsNoOp ==
    [][\A g \in Ids :
        (Handling(CompletedSig(g)) /\ current # g)
            => /\ UNCHANGED <<registry, queue, current, activeFlag, progress,
                             gameStatus, spawned>>
               /\ chan' = Tail(chan)]_vars

\* C5: handling Cancel(id) for an id in the queue, wherever it sits, leaves
\* queue and registry without id, keeps the order of the other entries and
\* sends one Go; and whenever a Go starts a job, it starts the job at the
\* front of the queue.
C5_CancelRemovesJob ==
    [][/\ \A g \in Ids :
            (Handling(CancelSig(g)) /\ g \in QueueIds)
                => /\ g \notin QueueIds'
                   /\ g \notin registry'
                   /\ queue' = Without(queue, g)
                   /\ chan' = Tail(chan) \o <<GoSig>>
       /\ (Handling(GoSig) /\ spawned' # spawned)
            => /\ current' = Head(queue)
               /\ spawned' = [spawned EXCEPT ![Head(queue)] = @ + 1]]_vars

\* C5 witness: the loop handles Cancel for the middle one of three queued
\* jobs; the step leaves the other two, in order, and sends Go.
C5_Witness ==
    ENABLED (/\ RecvCancel
             /\ Len(queue) = 3
             /\ Head(chan) = CancelSig(queue[2])
             /\ queue' = <<queue[1], queue[3]>>
             /\ registry' = {queue[1], queue[3]}
             /\ chan' = Tail(chan) \o <<GoSig>>)

\* C6: the scheduler loop never panics, whatever signals it receives.
C6_NeverPanics == loop # "panicked"

\* C7: handling Cancel(id) for an id in neither queue nor registry changes
\* neither queue, registry, control flags, active pointers nor progress.
C7_CancelUnknownIsNoOp ==
    [][\A g \in Ids :
        (Handling(CancelSig(g)) /\ g \notin QueueIds /\ g \notin registry)
            => UNCHANGED <<queue, registry, flag, activeFlag, current,
                           progress>>]_vars

\* the current job is downloading: it is still the queue front, its flag is
\* the active one and reads Go
IsDownloading ==
    /\ current # None
    /\ queue # << >> /\ Head(queue) = current
    /\ current \in registry
    /\ activeFlag = current
    /\ flag[current] = "Go"

\* C8: a Go handled while a job is downloading spawns no worker and leaves
\* queue, registry and active bindings unchanged.
C8_GoWhileDownloadingIsNoOp ==
    [][(Handling(GoSig) /\ IsDownloading)
        => UNCHANGED <<spawned, wStart, queue, registry, current, activeFlag,
                       progress>>]_vars

\* C9: after Completed(id) is handled for the current job id, queue and
\* registry do not contain id, the active job id and the active control flag
\* are None, the progress slot is None and the status of id is Installed.
C9_CompletedClearsActive ==
    [][\A g \in Ids :
        (Handling(CompletedSig(g)) /\ current = g)
            => /\ g \notin QueueIds'
               /\ g \notin registry'
               /\ current' = None
               /\ activeFlag' = None
               /\ progress' = None
               /\ gameStatus'[g] = "Installed"]_vars

CompletedInChan(i) == \E k \in 1..Len(chan) : chan[k] = CompletedSig(i)

\* every spawned worker eventually sends Completed for its job
WorkersComplete ==
    \A i \in Ids :
        [](spawned[i] > 0 => <>(CompletedInChan(i) \/ gameStatus[i] = "Installed"))

\* no Stop, Cancel, Error or Finish is sent
Undisturbed ==
    \A k \in 1..Len(chan) : chan[k].t \notin {"Stop", "Cancel", "Error", "Finish"}

Drained ==
    /\ queue = << >>
    /\ registry = {}
    /\ \A i \in admitted : spawned[i] > 0 /\ gameStatus[i] = "Installed"

\* jobs are started in queue order, each after the ones before it completed
StartedInOrder ==
    \A i, j \in Ids : (i < j /\ spawned[j] > 0) => gameStatus[i] = "Installed"

\* C10: in the drain scenario, if every spawned worker eventually sends
\* Completed and no Stop, Cancel, Error or Finish is sent, then once the Go
\* is sent every queued job is eventually started, in queue order, and queue
\* and registry become empty.
C10_DrainsQueue ==
    (WorkersComplete /\ []Undisturbed)
        => ([]StartedInOrder /\ [](driven => <>Drained))

\* C10 witness: two jobs were queued, one Go was sent, and both are done.
C10_Witness ==
    /\ driven
    /\ Drained
    /\ Cardinality(admitted) >= 2
    /\ \A i \in admitted : spawned[i] = 1
    /\ chan = << >>

\* job i failed and is parked: its handle, still queued, has status Error
Parked(i) == i \in QueueIds /\ handleStatus[i] = "Error"

\* C11: handling Error for the active job leaves queue and registry
\* unchanged, sets the job's status to Error and the manager status to
\* Error, and sends no Go; and from then until a Cancel or a new Queue of
\* that job, its status stays Error and no worker is spawned for it.
C11_ErrorParksJob ==
    [][/\ (Handling(ErrorSig) /\ current # None)
            => /\ UNCHANGED <<queue, registry>>
               /\ handleStatus'[current] = "Error"
               /\ mgrStatus' = "Error"
               /\ chan' = Tail(chan)
       /\ \A i \in Ids :
            (/\ Parked(i)
             /\ ~Handling(CancelSig(i))
             /\ ~Handling(QueueSig(i)))
                => /\ handleStatus'[i] = "Error"
                   /\ spawned'[i] = spawned[i]]_vars

\* q is what is left of r after entries were taken from its front
IsSuffix(q, r) ==
    /\ Len(q) <= Len(r)
    /\ q = SubSeq(r, Len(r) - Len(q) + 1, Len(r))

\* C12: with distinct ids and no Cancel, the ids in the job queue are in the
\* order in which their Queue signals were received, and jobs leave the
\* queue in that order: the queue is always what is left of the received
\* order after jobs were taken from its front.
C12_FifoOrder == IsSuffix(queue, received)

\* C12 witness: three jobs were queued and the first two have left.
C12_Witness ==
    /\ Len(received) = 3
    /\ queue = <<received[3]>>
    /\ gameStatus[received[1]] = "Installed"
    /\ gameStatus[received[2]] = "Installed"

\* C13: between signal handlers the progress slot is bound exactly when an
\* active control flag is bound, and is None whenever no job is active.
C13_ProgressBoundIffActive == (progress # None) <=> (activeFlag # None)

\* C13 witness: a job was active and has completed; the flag pointer and the
\* progress slot are both cleared while another job waits in the queue.
C13_Witness ==
    /\ progress = None
    /\ activeFlag = None
    /\ queue # << >>
    /\ \E i \in Ids : gameStatus[i] = "Installed" /\ spawned[i] > 0

\* a step of the thread running the pipeline
PipelineSteps == pc' # pc

\* C14: when the pipeline reads Stop from the control flag before any byte
\* was copied, at the entry of download_game_chunk or at the top of the copy
\* loop, it returns Ok(false), reads nothing from the source, writes nothing
\* and adds nothing to the progress.
C14_StopBeforeCopy ==
    [][(/\ PipelineSteps
        /\ pc \in {"start", "poll"}
        /\ current_size = 0
        /\ flag[ChunkJob] = "Stop")
            => /\ result' = "Ok(false)"
               /\ pc' = "done"
               /\ avail' = avail
               /\ current_size' = 0
               /\ written' = 0
               /\ prog' = 0]_vars

\* C14 witness: the flag read Go at entry and was set to Stop before the
\* first iteration of the copy loop, which returns Ok(false) with the source
\* untouched.
C14_Witness ==
    /\ pc = "poll"
    /\ current_size = 0
    /\ avail > 0
    /\ size > 0
    /\ flag[ChunkJob] = "Stop"
    /\ ENABLED (CopyPoll /\ result' = "Ok(false)" /\ avail' = avail)

\* C15: for every declared length N, 0 included, and every source, if the
\* control flag never reads Stop then the pipeline terminates, a completed
\* copy has written exactly N bytes and added N to the progress, and no more
\* than N bytes are ever taken from the source (current_size counts them).
C15_CopyExactLength ==
    [](flag[ChunkJob] # "Stop")
        => /\ <>(pc \in {"copied", "done"})
           /\ [](pc = "copied" => written = size /\ prog = size)
           /\ [](current_size <= size)

\* C16: when the source ends before the declared length is reached, the read
\* that finds the end makes copy return an error; copy neither completes
\* nor goes round the loop again.
C16_ShortReadIsError ==
    [][(/\ PipelineSteps
        /\ pc = "read"
        /\ avail = 0
        /\ current_size < size)
            => /\ pc' = "done"
               /\ result' = "Err"]_vars

\* C17: handling Cancel(id) for a job that is queued but is not the active
\* job leaves the active job alone: its control flag is not set to Stop, the
\* active pointers and the progress binding are not cleared, and no worker
\* is stopped or started.
C17_CancelQueuedSparesActive ==
    [][\A g \in Ids :
        (/\ Handling(CancelSig(g))
         /\ g \in QueueIds
         /\ activeFlag # None
         /\ activeFlag # g
         /\ current # g)
            => /\ flag'[activeFlag] = flag[activeFlag]
               /\ UNCHANGED <<activeFlag, current, progress, spawned,
                              workers>>]_vars

\* the active job is paused: bound, still the queue front, flag at Stop
Paused ==
    /\ activeFlag # None
    /\ flag[activeFlag] = "Stop"
    /\ queue # << >>
    /\ Head(queue) = activeFlag
    /\ activeFlag \in registry

\* C18: handling Stop with an active job sets that job's control flag to
\* Stop and changes nothing else; handling Stop with no active job changes
\* nothing; and a Go handled while the paused job is still the queue front
\* starts that same job again.
C18_StopIsPause ==
    [][/\ Handling(StopSig)
            => /\ flag' = IF activeFlag # None
                          THEN [flag EXCEPT ![activeFlag] = "Stop"]
                          ELSE flag
               /\ UNCHANGED <<registry, queue, current, activeFlag, progress,
                              handleStatus, gameStatus, mgrStatus, spawned,
                              workers>>
               /\ chan' = Tail(chan)
       /\ (Handling(GoSig) /\ Paused)
            => /\ current' = activeFlag
               /\ activeFlag' = activeFlag
               /\ progress' = activeFlag
               /\ flag'[activeFlag] = "Go"
               /\ spawned'[activeFlag] = spawned[activeFlag] + 1
               /\ UNCHANGED <<queue, registry>>]_vars

\* C18 witness: a running job was paused by Stop and the loop is about to
\* handle the Go that starts it again.
C18_Witness ==
    /\ Paused
    /\ loop = "run"
    /\ spawned[activeFlag] = 1
    /\ ENABLED (RecvGo /\ spawned'[activeFlag] = 2 /\ flag'[activeFlag] = "Go")

\* C19: handling Queue(id) puts id into the registry and at the back of the
\* queue in one step, sets its status to Queued, and starts nothing: no
\* worker is spawned, no Go is sent, and the active pointers, the control
\* flags of the other jobs and the progress binding are unchanged.
C19_QueueNeverStarts ==
    [][\A i \in Ids :
        Handling(QueueSig(i))
            => /\ registry' = registry \cup {i}
               /\ queue' = Append(queue, i)
               /\ gameStatus'[i] = "Queued"
               /\ chan' = Tail(chan)
               /\ \A j \in Ids \ {i} : flag'[j] = flag[j]
               /\ UNCHANGED <<current, activeFlag, progress, spawned,
                              workers, mgrStatus>>]_vars

\* C19 witness: a Queue signal is about to be handled while another job is
\* downloading.
C19_Witness ==
    /\ IsDownloading
    /\ LiveWorkers > 0
    /\ ENABLED (RecvQueue /\ Len(queue') = Len(queue) + 1
                          /\ queue'[Len(queue')] \notin registry)

\* C20: a worker spawned by the Go handler is not lost to a Stop that was in
\* the control flag before that Go was handled: when the handler returns,
\* the worker it spawned is alive and has yet to read the flag, which now
\* reads Go.
C20_WorkerSeesGo ==
    [][(Handling(GoSig) /\ spawned' # spawned)
        => LiveWorkers' = LiveWorkers + 1]_vars

====
